---- MODULE Spec2Model ----
(***************************************************************************)
(* Model of the QR link service of src/src/routes/qr.ts: the QR_Code,      *)
(* QR_Target and QR_Scan tables and the route handlers that read and write *)
(* them.  Every handler is a call; a call advances one database statement  *)
(* (one await) at a time, so the statements of concurrent calls interleave *)
(* exactly as the handlers' awaits allow.  The handlers open no            *)
(* transaction.  The table definitions are not part of the sources: a      *)
(* statement changes the rows it names and no others.  A statement inside  *)
(* a try/catch, or with a .catch handler, may be rejected by the database; *)
(* the model then runs the handler's catch path.  A rejection outside any  *)
(* handler of the route (the framework's 500) is not modelled.             *)
(*                                                                         *)
(* The functions of the module that work on their arguments alone (the     *)
(* prefetch test, the logo size, the logo resolver, the logo overlay) have *)
(* specifications of their own, ClassifySpec and RenderSpec, whose initial *)
(* states draw the arguments; their variables rest while the routes of     *)
(* Spec run.  CreateSpec runs the create route alone, over every name      *)
(* field.  RegionSpec computes the Region of a scan from every geo lookup.  *)
(*                                                                         *)
(* AuthSpec is the Session table with the login, refresh and logout routes *)
(* of routes/auth.ts, and PoolSpec the pool variable of db.ts with the     *)
(* calls of getPool; both advance one await at a time, as the routes of    *)
(* Spec do.                                                                *)
(***************************************************************************)
EXTENDS Integers, Sequences, FiniteSets, TLC

\* ---------------------------------------------------------------- bounds
MaxCalls == 3
MaxInFlight == 2
MaxPct == 105
MaxLogins == 2      \* logins that create a session (AuthSpec)
MaxRefreshes == 3   \* POST /auth/refresh requests (AuthSpec)
MaxGetPools == 4    \* calls of getPool (PoolSpec)

\* ------------------------------------------------------------ value sets
NoId == 0
Null == "<null>"
Anonymous == "<no cookie>"
Users == {"u1", "u2"}
Slugs == {"a", "b"}
UtmKeys == {"source", "medium", "campaign"}

NoUtm == [k \in UtmKeys |-> Null]
NullUrl == [scheme |-> "", rest |-> "", q |-> NoUtm]

\* Request bodies of POST /qr/create and POST /qr/:slug/retarget: the url
\* field as typed (scheme, remainder, utm_* parameters of its own query) and
\* the three utm_* form fields.  A create form carries the name and the
\* design fields as well (a retarget form that carries them changes
\* nothing: its handler does not read them).
NamedBody ==
  [name |-> "Menu",
   url |-> [scheme |-> "https", rest |-> "example.com/page", q |-> NoUtm],
   utm_source |-> "", utm_medium |-> "", utm_campaign |-> "",
   fg |-> "", bg |-> "#eeeeee", ec |-> "", format |-> "",
   logoUrl |-> "/uploads/logo.png", logoSizePct |-> 0]

BadBody ==
  [NamedBody EXCEPT !.url = [scheme |-> "ftp", rest |-> "example.com/file",
                             q |-> NoUtm]]

CreateBodies == {NamedBody, BadBody}

\* The name field as typed: a name, a name between blanks, nothing, a blank.
NameFields == {"Menu", " Menu ", "", " "}
CreateForms == {[NamedBody EXCEPT !.name = n] : n \in NameFields} \cup {BadBody}

RetargetBodies ==
  { [url |-> [scheme |-> "HTTPS", rest |-> "example.com/v2", q |-> NoUtm],
     utm_source |-> " newsletter ", utm_medium |-> " ", utm_campaign |-> ""],
    BadBody }

\* Number(x) of a text that is not a number; the numbers that occur are
\* greater.
NaN == -1000

\* A null where the stored JSON has a number; Number(null) is 0.
NoNumber == 0

\* Request bodies of POST /qr/:slug/design; "" and 0 stand for a field the
\* form leaves out.
NoDesignFields ==
  [fg |-> "", bg |-> "", ec |-> "", format |-> "", logoUrl |-> "", logoSizePct |-> 0]

DesignBodies ==
  { [NoDesignFields EXCEPT !.fg = "#ff0000", !.ec = "h", !.logoSizePct = 55],
    [NoDesignFields EXCEPT !.logoUrl = "%"] }

\* The characters of a string.
Chars(str) == [k \in 1..Len(str) |-> SubSeq(str, k, k)]

\* An inbound request to GET /r/:slug: the utm_source parameter of the query
\* string, the X-Moz, Purpose, X-Purpose and X-Facebook-User-Agent headers
\* (Null when the request has none), the User-Agent header (as characters),
\* and whether the user-agent parser or the geo lookup throws on it.
PlainRequest ==
  [query |-> Null, xmoz |-> Null, purpose |-> Null, xpurpose |-> Null,
   xfb |-> Null, ua |-> <<"M", "o", "z">>, unparsable |-> FALSE]

HitRequests ==
  { PlainRequest,
    [PlainRequest EXCEPT !.query = "spoofed"],
    [PlainRequest EXCEPT !.ua = <<"X", "B", "o", "t">>],
    [PlainRequest EXCEPT !.unparsable = TRUE] }

\* ------------------------------------------------------- pure functions
\* String.prototype.trim on the form values that occur.
Trim(s) ==
  CASE s = " " -> ""
    [] s = " newsletter " -> "newsletter"
    [] s = " Menu " -> "Menu"
    [] OTHER -> s

\* `x || null` on a string: the empty string is falsy.
OrNull(s) == IF s = "" THEN Null ELSE s

\* The scheme as the URL parser reports it (lower-cased).
Protocol(u) ==
  CASE u.scheme = "HTTPS" -> "https"
    [] u.scheme = "HTTP" -> "http"
    [] OTHER -> u.scheme

\* A normalizeUrl that accepts whatever the URL parser accepts.
anyUrl(u) == [ok |-> TRUE, url |-> [u EXCEPT !.scheme = Protocol(u)]]

\* normalizeUrl: throws unless the scheme is http or https, and returns the
\* serialised URL (scheme lower-cased, query kept).
normalizeUrl(u) ==
  IF Protocol(u) \in {"http", "https"}
    THEN [ok |-> TRUE, url |-> [u EXCEPT !.scheme = Protocol(u)]]
    ELSE [ok |-> FALSE, url |-> NullUrl]

\* A toLowerCase that leaves every character as it is.
sameCase(str) == str

\* String.prototype.toLowerCase, per character.
UpperCase == Chars("ABCDEFGHIJKLMNOPQRSTUVWXYZ")
LowerCase == Chars("abcdefghijklmnopqrstuvwxyz")

LowerOf ==
  [ch \in {UpperCase[k] : k \in DOMAIN UpperCase} |->
     LowerCase[CHOOSE k \in DOMAIN UpperCase : UpperCase[k] = ch]]

LowerChar(ch) == IF ch \in DOMAIN LowerOf THEN LowerOf[ch] ELSE ch

toLowerCase(str) == [k \in DOMAIN str |-> LowerChar(str[k])]

\* String.prototype.includes
includes(str, tok) ==
  \E k \in 0..(Len(str) - Len(tok)) : SubSeq(str, k + 1, k + Len(tok)) = tok

\* The user-agent tokens of the prefetch test.
BotTokens ==
  { Chars("facebookexternalhit"), Chars("twitterbot"), Chars("linkedinbot"),
    Chars("whatsapp"), Chars("telegrambot"), Chars("slackbot"),
    Chars("discordbot"), Chars("preview"), Chars("crawler"), Chars("bot") }

\* The prefetch/bot test of GET /r/:slug; a header value is truthy when it
\* is there and not empty.
isPrefetch(rq) ==
  LET userAgent == toLowerCase(rq.ua)
  IN \/ rq.xmoz = "prefetch"
     \/ rq.purpose = "prefetch"
     \/ rq.xpurpose = "preview"
     \/ rq.xfb \notin {Null, ""}
     \/ \E tok \in BotTokens : includes(userAgent, tok)

Min(a, b) == IF a <= b THEN a ELSE b
Max(a, b) == IF a >= b THEN a ELSE b

\* String.prototype.toUpperCase on the error-correction letters.
toUpperCase(s) ==
  CASE s = "l" -> "L" [] s = "m" -> "M" [] s = "q" -> "Q" [] s = "h" -> "H"
    [] OTHER -> s

\* `x || dflt`: the empty string and 0 are falsy.
Or(x, dflt) == IF x = "" THEN dflt ELSE x
OrNum(x, dflt) == IF x = 0 THEN dflt ELSE x

\* Math.min and Math.max: not-a-number if an argument is.
mathMin(a, b) == IF a = NaN \/ b = NaN THEN NaN ELSE Min(a, b)
mathMax(a, b) == IF a = NaN \/ b = NaN THEN NaN ELSE Max(a, b)

\* JSON.stringify writes not-a-number as null.
jsonNumber(x) == IF x = NaN THEN NoNumber ELSE x

\* const logoSizePct = Math.max(10, Math.min(40, Number(body.logoSizePct || 22)))
\* as JSON.stringify then writes it.
storedSize(x) == jsonNumber(mathMax(10, mathMin(40, OrNum(x, 22))))

\* The Design column written by create.  (The format values that occur are
\* lower case already.)
designOf(body) ==
  [fg |-> Or(body.fg, "#0b3d91"),
   bg |-> Or(body.bg, "#ffffff"),
   ec |-> toUpperCase(Or(body.ec, "M")),
   format |-> Or(body.format, "svg"),
   logoUrl |-> OrNull(Trim(body.logoUrl)),
   logoSizePct |-> storedSize(body.logoSizePct)]

\* decodeURIComponent on the logo references that occur: it throws on a
\* malformed escape sequence.
decodeURIComponent(str) ==
  CASE str = "%" -> [ok |-> FALSE, value |-> ""]
    [] str = "/uploads/%" -> [ok |-> FALSE, value |-> ""]
    [] str = "%2Fuploads%2Flogo.png" -> [ok |-> TRUE, value |-> "/uploads/logo.png"]
    [] OTHER -> [ok |-> TRUE, value |-> str]

\* The design update decodes the logo reference unless it is a data: URL
\* (none of the references that occur is one).
decodedLogo(body) == decodeURIComponent(Trim(body.logoUrl))

\* The Design column written by the design update.
designUpdateOf(body) ==
  [designOf(body) EXCEPT !.logoUrl = OrNull(decodedLogo(body).value)]

\* The UTM column written by create and retarget.
utmData(body) ==
  [k \in UtmKeys |->
     CASE k = "source" -> OrNull(Trim(body.utm_source))
       [] k = "medium" -> OrNull(Trim(body.utm_medium))
       [] k = "campaign" -> OrNull(Trim(body.utm_campaign))]

\* --------------------------------------------------------- resolveLogoHref
\* String.prototype.startsWith
startsWith(str, prefix) ==
  Len(str) >= Len(prefix) /\ SubSeq(str, 1, Len(prefix)) = prefix

\* /^https?:\/\//i.test(logoUrl), on the references that occur (their
\* schemes are in lower case).
isHttpUrl(str) == startsWith(str, "http://") \/ startsWith(str, "https://")

\* new URL(logoUrl).pathname on the references that occur: the constructor
\* throws on a host it cannot parse.
urlPathname(str) ==
  CASE str = "http://[" -> [ok |-> FALSE, value |-> ""]
    [] str = "http://localhost:3000/uploads/logo.png" ->
         [ok |-> TRUE, value |-> "/uploads/logo.png"]
    [] str = "https://cdn.example.com/logo.png" ->
         [ok |-> TRUE, value |-> "/logo.png"]
    [] OTHER -> [ok |-> TRUE, value |-> "/"]

\* The files under public/, by the path that names them, and what
\* fs.readFile gives for a path: the bytes in base64, or a rejection.
PublicFiles == {"/uploads/logo.png"}
readFile(pathname) ==
  IF pathname \in PublicFiles
    THEN [ok |-> TRUE, value |-> "iVBORw0KGgo="]
    ELSE [ok |-> FALSE, value |-> ""]

\* path.extname(abs).toLowerCase(), on paths that are in lower case: the
\* text from the last dot on.  Then the mime type chosen from it.
extname(pathname) ==
  LET dots == {k \in 1..Len(pathname) : SubSeq(pathname, k, k) = "."}
  IN IF dots = {} THEN ""
     ELSE SubSeq(pathname, CHOOSE k \in dots : \A j \in dots : j <= k,
                 Len(pathname))
mimeOf(ext) ==
  CASE ext = ".png" -> "image/png"
    [] ext \in {".jpg", ".jpeg"} -> "image/jpeg"
    [] ext = ".svg" -> "image/svg+xml"
    [] OTHER -> "application/octet-stream"

\* The pathname below public/ that a logo reference names: Null when it
\* names none, not ok when decodeURIComponent throws.  A URL that cannot be
\* parsed names none (the inner catch is empty).
logoPathname(logoUrl) ==
  IF startsWith(logoUrl, "/uploads/")
    THEN decodeURIComponent(logoUrl)
    ELSE IF isHttpUrl(logoUrl) /\ urlPathname(logoUrl).ok
              /\ startsWith(urlPathname(logoUrl).value, "/uploads/")
           THEN decodeURIComponent(urlPathname(logoUrl).value)
           ELSE [ok |-> TRUE, value |-> Null]

\* The try block of resolveLogoHref: the reference it returns, or that it
\* threw.
resolveAttempt(logoUrl) ==
  LET pathname == logoPathname(logoUrl)
  IN IF logoUrl = "" THEN [threw |-> FALSE, value |-> logoUrl]
     ELSE IF ~pathname.ok THEN [threw |-> TRUE, value |-> ""]
     ELSE IF pathname.value = Null THEN [threw |-> FALSE, value |-> logoUrl]
     ELSE IF ~readFile(pathname.value).ok THEN [threw |-> TRUE, value |-> ""]
     ELSE [threw |-> FALSE,
           value |-> "data:" \o mimeOf(extname(pathname.value)) \o ";base64,"
                       \o readFile(pathname.value).value]

\* A resolver whose failures reach the caller.
rethrowFailure(logoUrl, attempt) == attempt

\* The catch block of resolveLogoHref: return logoUrl.
catchFailure(logoUrl, attempt) ==
  IF attempt.threw THEN [threw |-> FALSE, value |-> logoUrl] ELSE attempt

resolveLogoHref(logoUrl) == catchFailure(logoUrl, resolveAttempt(logoUrl))

\* ------------------------------------------------------ injectLogoIntoSvg
\* A text as injectLogoIntoSvg reads it: whether it has an opening svg tag,
\* the width and height attributes of that tag and the two sizes of its
\* viewBox (NoAttr when it has none), whether it declares the xlink
\* namespace, whether it has a closing svg tag, and the elements that were
\* injected before that tag.
NoAttr == -1

NoSvg ==
  [opened |-> FALSE, width |-> NoAttr, height |-> NoAttr,
   vbWidth |-> NoAttr, vbHeight |-> NoAttr,
   xlink |-> FALSE, closed |-> FALSE, injected |-> <<>>]

\* An svg element without attributes.
BareSvg == [NoSvg EXCEPT !.opened = TRUE, !.closed = TRUE]

\* Lengths are kept in ten-thousandths of a unit of the coordinate system,
\* which holds every quantity of the function exactly for whole percentages.
Scale == 10000

\* parseInt(m, 10) || dflt
ParsedOr(n, dflt) == IF n = 0 THEN dflt ELSE n

\* const whMatch = svg.match(/<svg[^>]*\bwidth="(\d+)"[^>]*\bheight="(\d+)"/i)
whMatch(svg) == svg.opened /\ svg.width # NoAttr /\ svg.height # NoAttr

\* const vbMatch = svg.match(/viewBox="\s*0\s+0\s+(\d+)\s+(\d+)\s*"/i)
vbMatch(svg) == svg.vbWidth # NoAttr /\ svg.vbHeight # NoAttr

canvasSize(svg) ==
  IF whMatch(svg)
    THEN Min(ParsedOr(svg.width, 512), ParsedOr(svg.height, 512)) ELSE 512

viewBoxSize(svg) ==
  IF vbMatch(svg)
    THEN Min(ParsedOr(svg.vbWidth, 29), ParsedOr(svg.vbHeight, 29)) ELSE 29

\* (sizePct / 100) * viewBoxSize
logoSizeInViewBox(svg, sizePct) == sizePct * viewBoxSize(svg) * (Scale \div 100)

\* x and y: (viewBoxSize - logoSizeInViewBox) / 2
logoOffset(svg, sizePct) ==
  viewBoxSize(svg) * (Scale \div 2) - sizePct * viewBoxSize(svg) * (Scale \div 200)

\* Math.max(0.1, logoSizeInViewBox * 0.06)
logoPad(svg, sizePct) ==
  Max(Scale \div 10, sizePct * viewBoxSize(svg) * ((6 * Scale) \div 10000))

\* The elements with a knockout that is not clamped.
logoElementsUnclamped(svg, sizePct) ==
  LET size == logoSizeInViewBox(svg, sizePct)
      x == logoOffset(svg, sizePct)
      pad == logoPad(svg, sizePct)
      kx == x - pad
      kw == size + 2 * pad
  IN << [tag |-> "rect", fill |-> "background", x |-> kx, y |-> kx,
         width |-> kw, height |-> kw],
        [tag |-> "image", fill |-> "logo", x |-> x, y |-> x,
         width |-> size, height |-> size],
        [tag |-> "rect", fill |-> "none", x |-> kx, y |-> kx,
         width |-> kw, height |-> kw] >>

\* The knockout rectangle, the logo and the border rectangle.
logoElements(svg, sizePct) ==
  LET size == logoSizeInViewBox(svg, sizePct)
      x == logoOffset(svg, sizePct)
      pad == logoPad(svg, sizePct)
      kx == Max(0, x - pad)
      kw == Min(viewBoxSize(svg) * Scale, size + 2 * pad)
  IN << [tag |-> "rect", fill |-> "background", x |-> kx, y |-> kx,
         width |-> kw, height |-> kw],
        [tag |-> "image", fill |-> "logo", x |-> x, y |-> x,
         width |-> size, height |-> size],
        [tag |-> "rect", fill |-> "none", x |-> kx, y |-> kx,
         width |-> kw, height |-> kw] >>

\* injectLogoIntoSvg without the debug drawings: the namespace is added to
\* the opening tag, if there is one, when the text has none, and the
\* elements replace the closing tag, if there is one, by themselves and
\* the tag.
injectLogoIntoSvg(svg, sizePct) ==
  [svg EXCEPT !.xlink = svg.xlink \/ svg.opened,
              !.injected = IF svg.closed
                             THEN svg.injected \o logoElements(svg, sizePct)
                             ELSE svg.injected]

\* --------------------------------------------------------------- state
VARIABLES
  links,     \* dbo.QR_Code : Id -> row
  targets,   \* dbo.QR_Target : Id -> row
  scans,     \* dbo.QR_Scan : the rows in insertion order
  calls,     \* the handler invocations in flight : call number -> locals
  last,      \* the handler invocation that finished most recently
  started,   \* how many handler invocations have arrived
  request,   \* ClassifySpec: the request handed to the prefetch test
  classified, \* ClassifySpec: <<>>, or the verdict of the prefetch test
  designReq,  \* RenderSpec: the design fields a request carries
  savedDesign, \* RenderSpec: <<>>, or the Design column written from them
  qrSvg,      \* RenderSpec: the image the encoder returned
  rendered,   \* RenderSpec: <<>>, or the logo size used and the image sent
  geoScan,    \* RegionSpec: a geo lookup's result and <<>>, or the Region bound
  auth,       \* AuthSpec: dbo.Session and the refresh requests
  db          \* PoolSpec: the module's pool variable and the getPool calls

storeVars == <<links, targets, scans, calls, last, started>>
classifyVars == <<request, classified>>
renderVars == <<designReq, savedDesign, qrSvg, rendered>>
sideVars == <<geoScan, auth, db>>
vars == <<links, targets, scans, calls, last, started, request, classified,
          designReq, savedDesign, qrSvg, rendered, geoScan, auth, db>>

NoResp == [status |-> 0, page |-> "", url |-> NullUrl, rows |-> {}]
NoRow == [qrId |-> NoId, targetId |-> NoId, url |-> NullUrl, utm |-> NoUtm]

NewCall(kind, user, slug) ==
  [kind |-> kind, pc |-> "done", user |-> user, slug |-> slug,
   url |-> NullUrl, utm |-> NoUtm, qrId |-> NoId, nextVer |-> 0,
   targetId |-> NoId, row |-> NoRow, query |-> Null, prefetch |-> FALSE,
   scan |-> "none", again |-> FALSE, resp |-> NoResp]

NoCall == NewCall("none", Anonymous, Null)

\* reply.redirect(page) to one of the application's own pages
Redirect(page) == [NoResp EXCEPT !.status = 302, !.page = page]

\* reply.code(status).send(...)
Status(status) == [NoResp EXCEPT !.status = status]

\* The tables are empty and no request has arrived.
StoreEmpty ==
  /\ links = <<>>
  /\ targets = <<>>
  /\ scans = <<>>
  /\ calls = <<>>
  /\ last = NoCall
  /\ started = 0

\* Nothing is handed to the prefetch test.
ClassifierIdle == request = PlainRequest /\ classified = <<>>

\* Nothing is being rendered.
RendererIdle ==
  /\ designReq = NoDesignFields
  /\ savedDesign = <<>>
  /\ qrSvg = NoSvg
  /\ rendered = <<>>

\* No geo lookup is at hand.
NoGeo == [country |-> "", region |-> "", city |-> "", ll |-> <<>>]
RegionIdle == geoScan = [geo |-> NoGeo, region |-> <<>>]

\* No session exists, no token was issued and no refresh request has
\* arrived.
NoPool == 0
NoAuth == [sessions |-> {}, refreshes |-> <<>>, logins |-> 0, minted |-> 0]
AuthIdle == auth = NoAuth

\* The module is loaded: let pool = null, and no call of getPool yet.
NoDb == [pool |-> NoPool, pools |-> <<>>, getters |-> <<>>]
PoolIdle == db = NoDb

SidesIdle == RegionIdle /\ AuthIdle /\ PoolIdle

Init == StoreEmpty /\ ClassifierIdle /\ RendererIdle /\ SidesIdle

\* A call arrives and runs to its first await.
Arrive(c) ==
  /\ started < MaxCalls
  /\ started' = started + 1
  /\ IF c.pc = "done"
       THEN last' = c /\ UNCHANGED calls
       ELSE /\ Cardinality(DOMAIN calls) < MaxInFlight
            /\ calls' = calls @@ ((started + 1) :> c)
            /\ UNCHANGED last
  /\ UNCHANGED <<classifyVars, renderVars, sideVars>>

\* A handler that has returned holds no locals; what stays observable is
\* the request, the response, the link it worked on and, for a hit, the row
\* it resolved.
Returned(c) ==
  [c EXCEPT !.url = NullUrl, !.utm = NoUtm, !.nextVer = 0, !.targetId = NoId]

\* Call i runs from one await to the next.
Continue(i, c) ==
  /\ IF c.pc = "done"
       THEN /\ last' = Returned(c)
            /\ calls' = [j \in DOMAIN calls \ {i} |-> calls[j]]
       ELSE /\ calls' = [calls EXCEPT ![i] = c]
            /\ UNCHANGED last
  /\ UNCHANGED <<started, classifyVars, renderVars, sideVars>>

\* ------------------------------------------------------- table helpers
\* INSERT INTO dbo.QR_Code (User_Id, Name, Slug, Design): CurrentTargetId
\* and Archived take their column defaults.
InsertLink(tbl, id, user, name, slug, design) ==
  tbl @@ (id :> [owner |-> user, name |-> name, slug |-> slug, design |-> design,
                 archived |-> FALSE, cur |-> NoId])

\* A retarget that edits the link's target row in place when there is one.
OverwriteTarget(tbl, id, qid, url, ver, utm) ==
  IF \E t \in DOMAIN tbl : tbl[t].linkId = qid
    THEN [t \in DOMAIN tbl |->
            IF tbl[t].linkId = qid
              THEN [tbl[t] EXCEPT !.url = url, !.utm = utm, !.version = ver]
              ELSE tbl[t]]
    ELSE tbl @@ (id :> [linkId |-> qid, version |-> ver, url |-> url, utm |-> utm])

\* INSERT INTO dbo.QR_Target (QR_Code_Id, Url, Version, UTM)
InsertTarget(tbl, id, qid, url, ver, utm) ==
  tbl @@ (id :> [linkId |-> qid, version |-> ver, url |-> url, utm |-> utm])

\* UPDATE dbo.QR_Code SET CurrentTargetId=@tid WHERE Id=@qid
SetCurrentTarget(tbl, qid, tid) ==
  [l \in DOMAIN tbl |-> IF l = qid THEN [tbl[l] EXCEPT !.cur = tid] ELSE tbl[l]]

\* ---------------------------------------------------- POST /qr/create
\* The handler up to and including its first statement, the QR_Code insert,
\* which the database accepts or rejects.  The new row's Id is the call
\* number, which no other row has.
CreateBegin(user, body, slug) ==
  LET c == NewCall("create", user, Null)
      n == normalizeUrl(body.url)
      id == started + 1
  IN /\ IF user = Anonymous
          THEN /\ Arrive([c EXCEPT !.resp = Redirect("/login.html?error=Please+log+in")])
               /\ UNCHANGED links
          ELSE IF ~n.ok
            THEN /\ Arrive([c EXCEPT !.resp = Redirect("/generateQR.html?error=Invalid+URL")])
                 /\ UNCHANGED links
            ELSE \/ /\ links' = InsertLink(links, id, user, Trim(body.name), slug,
                                               designOf(body))
                    /\ Arrive([c EXCEPT !.pc = "insertTarget", !.slug = slug,
                                        !.url = n.url, !.utm = utmData(body),
                                        !.qrId = id])
                 \/ /\ Arrive([c EXCEPT !.resp = Redirect("/generateQR.html?error=Failed+to+create")])
                    /\ UNCHANGED links
     /\ UNCHANGED <<targets, scans>>

\* The version-1 target insert.
CreateInsertTarget(i) ==
  /\ calls[i].kind = "create" /\ calls[i].pc = "insertTarget"
  /\ targets' = InsertTarget(targets, i, calls[i].qrId, calls[i].url, 1, calls[i].utm)
  /\ Continue(i, [calls[i] EXCEPT !.pc = "setPointer", !.targetId = i])
  /\ UNCHANGED <<links, scans>>

\* The pointer update and the success redirect.
CreateSetPointer(i) ==
  /\ calls[i].kind = "create" /\ calls[i].pc = "setPointer"
  /\ links' = SetCurrentTarget(links, calls[i].qrId, calls[i].targetId)
  /\ Continue(i, [calls[i] EXCEPT !.pc = "done",
                                  !.resp = Redirect("/qr.html?success=QR+created")])
  /\ UNCHANGED <<targets, scans>>

\* A statement of create after the first is rejected: the catch block
\* answers with the error page; nothing is rolled back.
CreateDbError(i) ==
  /\ calls[i].kind = "create" /\ calls[i].pc \in {"insertTarget", "setPointer"}
  /\ Continue(i, [calls[i] EXCEPT !.pc = "done",
                                  !.resp = Redirect("/generateQR.html?error=Failed+to+create")])
  /\ UNCHANGED <<links, targets, scans>>

\* ------------------------------------------------ POST /qr/:slug/retarget
\* A lookup by slug alone.
AnyBySlug(user, slug) == {l \in DOMAIN links : links[l].slug = slug}

\* SELECT TOP 1 Id FROM dbo.QR_Code WHERE Slug=@slug AND User_Id=@uid
OwnedBySlug(user, slug) ==
  {l \in DOMAIN links : links[l].slug = slug /\ links[l].owner = user}

\* SELECT ISNULL(MAX(Version),0) FROM dbo.QR_Target WHERE QR_Code_Id=@qid
MaxVersion(qid) ==
  LET vs == {targets[t].version : t \in {x \in DOMAIN targets : targets[x].linkId = qid}}
  IN IF vs = {} THEN 0 ELSE CHOOSE v \in vs : \A w \in vs : w <= v

\* The handler up to and including the link lookup, which the database
\* answers or rejects.
RetargetBegin(user, body, slug) ==
  LET c == NewCall("retarget", user, slug)
      n == normalizeUrl(body.url)
  IN /\ IF user = Anonymous
          THEN Arrive([c EXCEPT !.slug = Null,
                                !.resp = Redirect("/login.html?error=Please+log+in")])
          ELSE IF ~n.ok
            THEN Arrive([c EXCEPT !.resp = Redirect("/editQR.html?error=Invalid+URL")])
            ELSE \/ IF OwnedBySlug(user, slug) = {}
                      THEN Arrive([c EXCEPT !.resp = Redirect("/qr.html?error=Not+found")])
                      ELSE \E l \in OwnedBySlug(user, slug) :
                             Arrive([c EXCEPT !.pc = "readMax", !.url = n.url,
                                              !.utm = utmData(body), !.qrId = l])
                 \/ Arrive([c EXCEPT !.resp = Redirect("/editQR.html?error=Failed+to+update")])
     /\ UNCHANGED <<links, targets, scans>>

\* nextVer = max version + 1
RetargetReadMax(i) ==
  /\ calls[i].kind = "retarget" /\ calls[i].pc = "readMax"
  /\ Continue(i, [calls[i] EXCEPT !.pc = "insertTarget",
                                  !.nextVer = MaxVersion(calls[i].qrId) + 1])
  /\ UNCHANGED <<links, targets, scans>>

\* The insert of the new target row.
RetargetInsertTarget(i) ==
  /\ calls[i].kind = "retarget" /\ calls[i].pc = "insertTarget"
  /\ targets' = InsertTarget(targets, i, calls[i].qrId, calls[i].url,
                             calls[i].nextVer, calls[i].utm)
  /\ Continue(i, [calls[i] EXCEPT !.pc = "setPointer", !.targetId = i])
  /\ UNCHANGED <<links, scans>>

\* The pointer update and the success redirect.
RetargetSetPointer(i) ==
  /\ calls[i].kind = "retarget" /\ calls[i].pc = "setPointer"
  /\ links' = SetCurrentTarget(links, calls[i].qrId, calls[i].targetId)
  /\ Continue(i, [calls[i] EXCEPT !.pc = "done",
                                  !.resp = Redirect("/editQR.html?success=Target+updated")])
  /\ UNCHANGED <<targets, scans>>

\* A statement of retarget after the lookup is rejected: the catch block
\* answers with the error page; nothing is rolled back.
RetargetDbError(i) ==
  /\ calls[i].kind = "retarget"
  /\ calls[i].pc \in {"readMax", "insertTarget", "setPointer"}
  /\ Continue(i, [calls[i] EXCEPT !.pc = "done",
                                  !.resp = Redirect("/editQR.html?error=Failed+to+update")])
  /\ UNCHANGED <<links, targets, scans>>

\* --------------------------------------------------- POST /qr/:slug/design
\* An update that writes the design and clears the pointer of the row.
SetDesignAndPointer(tbl, user, slug, design) ==
  [l \in DOMAIN tbl |->
     IF tbl[l].slug = slug /\ tbl[l].owner = user
       THEN [tbl[l] EXCEPT !.design = design, !.cur = NoId] ELSE tbl[l]]

\* UPDATE dbo.QR_Code SET Design=@design WHERE Slug=@slug AND User_Id=@uid
SetDesign(tbl, user, slug, design) ==
  [l \in DOMAIN tbl |->
     IF tbl[l].slug = slug /\ tbl[l].owner = user
       THEN [tbl[l] EXCEPT !.design = design] ELSE tbl[l]]

\* The handler: the body is read outside any try, so a throw of the decoding
\* rejects the handler before its statement, which the framework answers
\* with a 500.
UpdateDesign(user, slug, body) ==
  LET c == NewCall("design", user, slug)
  IN /\ IF user = Anonymous
          THEN /\ Arrive([c EXCEPT !.slug = Null,
                                   !.resp = Redirect("/login.html?error=Please+log+in")])
               /\ UNCHANGED links
          ELSE IF ~decodedLogo(body).ok
            THEN /\ Arrive([c EXCEPT !.resp = Status(500)])
                 /\ UNCHANGED links
            ELSE /\ links' = SetDesign(links, user, slug, designUpdateOf(body))
                 /\ Arrive([c EXCEPT !.resp =
                        IF OwnedBySlug(user, slug) = {}
                          THEN Redirect("/editQR.html?error=Not+found")
                          ELSE Redirect("/editQR.html?success=Design+updated")])
     /\ UNCHANGED <<targets, scans>>

\* --------------------------------------------------- POST /qr/:slug/delete
\* A delete that names the rows by slug alone.
DeleteBySlug(tbl, user, slug) ==
  [l \in {x \in DOMAIN tbl : tbl[x].slug # slug} |-> tbl[l]]

\* A delete that flips the archived flag of the caller's rows.
ToggleArchived(tbl, user, slug) ==
  [l \in DOMAIN tbl |->
     IF tbl[l].slug = slug /\ tbl[l].owner = user
       THEN [tbl[l] EXCEPT !.archived = ~tbl[l].archived] ELSE tbl[l]]

\* DELETE FROM dbo.QR_Code WHERE Slug=@slug AND User_Id=@uid
DeleteLinks(tbl, user, slug) ==
  [l \in {x \in DOMAIN tbl : ~(tbl[x].slug = slug /\ tbl[x].owner = user)} |-> tbl[l]]

\* The request repeats the one that returned last, with no call in flight
\* (a note on the history, which the handler does not read).
Repeats(kind, user, slug) ==
  calls = <<>> /\ last.kind = kind /\ last.user = user /\ last.slug = slug

Delete(user, slug) ==
  LET c == [NewCall("delete", user, slug) EXCEPT
              !.again = Repeats("delete", user, slug)]
  IN /\ IF user = Anonymous
          THEN /\ Arrive([c EXCEPT !.slug = Null,
                                   !.resp = Redirect("/login.html?error=Please+log+in")])
               /\ UNCHANGED links
          ELSE /\ links' = DeleteLinks(links, user, slug)
               /\ Arrive([c EXCEPT !.resp = Redirect("/qr.html?success=QR+deleted")])
     /\ UNCHANGED <<targets, scans>>

\* ------------------------------------------------------------ GET /r/:slug
\* SELECT TOP 1 ... FROM QR_Code q JOIN QR_Target t ON t.Id = q.CurrentTargetId
\* WHERE q.Slug = @slug
ResolveRows(slug) ==
  { [qrId |-> l, targetId |-> links[l].cur,
     url |-> targets[links[l].cur].url, utm |-> targets[links[l].cur].utm] :
    l \in {x \in DOMAIN links : links[x].slug = slug /\ links[x].cur \in DOMAIN targets} }

\* A redirect that lets the inbound utm_source parameter through.
RedirectLocationFromQuery(row, rq) ==
  IF rq.query = Null THEN row.url
    ELSE [row.url EXCEPT !.q = [row.url.q EXCEPT !["source"] = rq.query]]

\* A redirect that appends a parameter once more when the link has been
\* scanned before.
RedirectLocationAccumulating(row, rq) ==
  IF \E k \in 1..Len(scans) : scans[k].linkId = row.qrId
    THEN [row.url EXCEPT !.rest = row.url.rest \o "&utm_source=qr"]
    ELSE row.url

\* reply.redirect(Url)
RedirectLocation(row, rq) == row.url

RedirectTo(url) == [NoResp EXCEPT !.status = 302, !.url = url]

\* The lookup, the parsing of the user agent and the address (outside any
\* try: a throw there rejects the handler, which the framework answers with
\* a 500), the classification, the start of the scan insert (not awaited)
\* and the response.
Resolve(slug, rq) ==
  LET c == [NewCall("hit", Anonymous, slug) EXCEPT !.query = rq.query]
  IN /\ IF ResolveRows(slug) = {}
          THEN Arrive([c EXCEPT !.resp = Status(404)])
          ELSE IF rq.unparsable
            THEN Arrive([c EXCEPT !.resp = Status(500)])
            ELSE \E row \in ResolveRows(slug) :
                   Arrive([c EXCEPT !.row = row,
                                    !.prefetch = isPrefetch(rq),
                                    !.scan = IF isPrefetch(rq) THEN "none" ELSE "pending",
                                    !.pc = IF isPrefetch(rq) THEN "done" ELSE "scanWrite",
                                    !.resp = RedirectTo(RedirectLocation(row, rq))])
     /\ UNCHANGED <<links, targets, scans>>

\* A scan insert that looks the link's pointer up again when it runs.
InsertScanOfCurrent(log, row) ==
  Append(log, [linkId |-> row.qrId,
               targetId |-> IF row.qrId \in DOMAIN links
                              THEN links[row.qrId].cur ELSE row.targetId,
               utm |-> row.utm, isPrefetch |-> FALSE])

\* A scan insert that copies the UTM of the target the link points at when
\* the insert runs.
InsertScanUtmOfCurrent(log, row) ==
  Append(log, [linkId |-> row.qrId, targetId |-> row.targetId,
               utm |-> IF row.qrId \in DOMAIN links
                            /\ links[row.qrId].cur \in DOMAIN targets
                         THEN targets[links[row.qrId].cur].utm ELSE row.utm,
               isPrefetch |-> FALSE])

\* INSERT INTO dbo.QR_Scan (...) with Is_Prefetch = 0
InsertScan(log, row) ==
  Append(log, [linkId |-> row.qrId, targetId |-> row.targetId,
               utm |-> row.utm, isPrefetch |-> FALSE])

\* The scan insert completes after the response was sent.
ScanWritten(i) ==
  /\ calls[i].kind = "hit" /\ calls[i].pc = "scanWrite"
  /\ scans' = InsertScan(scans, calls[i].row)
  /\ Continue(i, [calls[i] EXCEPT !.pc = "done", !.scan = "written"])
  /\ UNCHANGED <<links, targets>>

\* A scan-write failure that reaches the client as an error.
ScanErrorAsResponse(resp) == Status(500)

\* .catch(console.error): the response already sent stays as it is.
AfterScanError(resp) == resp

\* The scan insert is rejected after the response was sent.
ScanFailed(i) ==
  /\ calls[i].kind = "hit" /\ calls[i].pc = "scanWrite"
  /\ Continue(i, [calls[i] EXCEPT !.pc = "done", !.scan = "failed",
                                  !.resp = AfterScanError(calls[i].resp)])
  /\ UNCHANGED <<links, targets, scans>>

\* ------------------------------------------- GET /api/my/qr, /api/qr/:slug
\* q LEFT JOIN QR_Target t ON t.Id = q.CurrentTargetId: CurrentUrl is NULL
\* when the pointer references no target row.
ReadRow(l) ==
  [id |-> l, slug |-> links[l].slug, cur |-> links[l].cur,
   currentUrl |-> IF links[l].cur \in DOMAIN targets
                    THEN targets[links[l].cur].url ELSE NullUrl]

\* WHERE q.User_Id = @uid AND q.Archived = 0
ListRows(user) ==
  {ReadRow(l) : l \in {x \in DOMAIN links : links[x].owner = user /\ ~links[x].archived}}

ListMine(user) ==
  LET c == NewCall("list", user, Null)
  IN /\ IF user = Anonymous
          THEN Arrive([c EXCEPT !.resp = Status(401)])
          ELSE Arrive([c EXCEPT !.resp = [Status(200) EXCEPT !.rows = ListRows(user)]])
     /\ UNCHANGED <<links, targets, scans>>

\* WHERE q.User_Id=@uid AND q.Slug=@slug, first row of the record set
Detail(user, slug) ==
  LET c == NewCall("detail", user, slug)
  IN /\ IF user = Anonymous
          THEN Arrive([c EXCEPT !.slug = Null, !.resp = Status(401)])
          ELSE IF OwnedBySlug(user, slug) = {}
            THEN Arrive([c EXCEPT !.resp = Status(404)])
            ELSE \E l \in OwnedBySlug(user, slug) :
                   Arrive([c EXCEPT !.resp = [Status(200) EXCEPT !.rows = {ReadRow(l)}]])
     /\ UNCHANGED <<links, targets, scans>>

\* -------------------------------------------------------- specification
\* User names and slugs are interchangeable, so a request names a user (a
\* slug) that the state already mentions or one representative new one.
\* ------------------------------------------------------- GET /qr/:slug/svg
\* SELECT TOP 1 Design FROM dbo.QR_Code WHERE Slug=@slug, answered with the
\* image or with 404; what the image holds is the matter of RenderSvg.
ServeSvg(slug) ==
  LET c == NewCall("svg", Anonymous, slug)
  IN /\ Arrive([c EXCEPT !.resp = IF \E l \in DOMAIN links : links[l].slug = slug
                                   THEN Status(200) ELSE Status(404)])
     /\ UNCHANGED <<links, targets, scans>>

UsersInState ==
  {links[l].owner : l \in DOMAIN links} \cup {calls[i].user : i \in DOMAIN calls}
    \cup {last.user}

SlugsInState ==
  {links[l].slug : l \in DOMAIN links} \cup {calls[i].slug : i \in DOMAIN calls}
    \cup {last.slug}

OneNew(S, inState) ==
  (S \cap inState) \cup
    (IF S \ inState = {} THEN {} ELSE {CHOOSE x \in S \ inState : TRUE})

SomeCaller == {Anonymous} \cup OneNew(Users, UsersInState)
SomeSlug == OneNew(Slugs, SlugsInState)

Next ==
  \/ \E user \in SomeCaller, body \in CreateBodies, slug \in SomeSlug : CreateBegin(user, body, slug)
  \/ \E i \in DOMAIN calls : CreateInsertTarget(i)
  \/ \E i \in DOMAIN calls : CreateSetPointer(i)
  \/ \E i \in DOMAIN calls : CreateDbError(i)
  \/ \E user \in SomeCaller, body \in RetargetBodies, slug \in SomeSlug : RetargetBegin(user, body, slug)
  \/ \E i \in DOMAIN calls : RetargetReadMax(i)
  \/ \E i \in DOMAIN calls : RetargetInsertTarget(i)
  \/ \E i \in DOMAIN calls : RetargetSetPointer(i)
  \/ \E i \in DOMAIN calls : RetargetDbError(i)
  \/ \E user \in SomeCaller, slug \in SomeSlug, body \in DesignBodies : UpdateDesign(user, slug, body)
  \/ \E user \in SomeCaller, slug \in SomeSlug : Delete(user, slug)
  \/ \E slug \in SomeSlug, rq \in HitRequests : Resolve(slug, rq)
  \/ \E i \in DOMAIN calls : ScanWritten(i)
  \/ \E i \in DOMAIN calls : ScanFailed(i)
  \/ \E user \in SomeCaller : ListMine(user)
  \/ \E user \in SomeCaller, slug \in SomeSlug : Detail(user, slug)
  \/ \E slug \in SomeSlug : ServeSvg(slug)

Spec == Init /\ [][Next]_vars

\* ------------------------------------------------------ the creates alone
\* POST /qr/create with every name field, and nothing else.
CreateNext ==
  \/ \E user \in SomeCaller, body \in CreateForms, slug \in SomeSlug : CreateBegin(user, body, slug)
  \/ \E i \in DOMAIN calls : CreateInsertTarget(i)
  \/ \E i \in DOMAIN calls : CreateSetPointer(i)
  \/ \E i \in DOMAIN calls : CreateDbError(i)

CreateSpec == Init /\ [][CreateNext]_vars

\* ------------------------------------------------- the prefetch test alone
\* User-Agent headers: a desktop browser, the Facebook crawler in several
\* letter cases, a messaging app, a command-line client, and none.
DesktopUserAgent ==
  Chars("Mozilla/5.0 (Windows NT 10.0; Win64; x64) AppleWebKit/537.36 (KHTML, like Gecko) Chrome/120.0.0.0 Safari/537.36")

UserAgents ==
  { DesktopUserAgent,
    Chars("facebookexternalhit/1.1 (+http://www.facebook.com/externalhit_uatext.php)"),
    Chars("FacebookExternalHit/1.1"),
    Chars("FACEBOOKEXTERNALHIT/1.1"),
    Chars("Mozilla/5.0 (compatible; FaceBookExternalHit)"),
    Chars("WhatsApp/2.23.20"),
    Chars("curl/8.4.0"),
    <<>> }

ClassifyRequests ==
  { [PlainRequest EXCEPT !.xmoz = xm, !.purpose = pu, !.xpurpose = xp,
                         !.xfb = fb, !.ua = agent] :
      xm \in {Null, "prefetch"}, pu \in {Null, "prefetch"},
      xp \in {Null, "preview"}, fb \in {Null, "", "1"}, agent \in UserAgents }

ClassifyInit ==
  /\ StoreEmpty
  /\ RendererIdle
  /\ SidesIdle
  /\ request \in ClassifyRequests
  /\ classified = <<>>

\* const isPrefetch = !!( ... )
Classify ==
  /\ classified = <<>>
  /\ classified' = <<isPrefetch(request)>>
  /\ UNCHANGED <<request, storeVars, renderVars, sideVars>>

ClassifyNext == Classify

ClassifySpec == ClassifyInit /\ [][ClassifyNext]_vars

\* --------------------------------------------- logo size and logo overlay
\* The texts handed to injectLogoIntoSvg: what the encoder returns for
\* width 512 (a version-2 symbol, the smallest and the largest symbol, each
\* with its margin of two modules a side), an image that is not square, the
\* encoder's image without its dimensions or without its viewBox, with a
\* zero dimension, an svg element with neither, and a text that is no svg
\* element.
Images ==
  { [BareSvg EXCEPT !.width = 512, !.height = 512, !.vbWidth = 29, !.vbHeight = 29],
    [BareSvg EXCEPT !.width = 512, !.height = 512, !.vbWidth = 25, !.vbHeight = 25],
    [BareSvg EXCEPT !.width = 512, !.height = 512, !.vbWidth = 181, !.vbHeight = 181],
    [BareSvg EXCEPT !.vbWidth = 33, !.vbHeight = 45],
    [BareSvg EXCEPT !.vbWidth = 33, !.vbHeight = 33],
    [BareSvg EXCEPT !.width = 512, !.height = 512],
    [BareSvg EXCEPT !.width = 0, !.height = 512, !.vbWidth = 0, !.vbHeight = 29,
                    !.xlink = TRUE],
    BareSvg,
    NoSvg }

\* The logoSizePct field: a number, nothing (0), or a text that is no number.
SizeFields == ((0 - 5)..MaxPct) \cup {NaN}

LogoFields ==
  {"", "/uploads/logo.png", "/uploads/missing.png", "/uploads/%", "http://[",
   "http://localhost:3000/uploads/logo.png", "https://cdn.example.com/logo.png"}

RenderInit ==
  /\ StoreEmpty
  /\ ClassifierIdle
  /\ SidesIdle
  /\ designReq \in { [NoDesignFields EXCEPT !.logoSizePct = n, !.logoUrl = ref] :
                        n \in SizeFields, ref \in LogoFields }
  /\ savedDesign = <<>>
  /\ qrSvg \in Images
  /\ rendered = <<>>

\* POST /qr/create writes the Design column.
SaveOnCreate ==
  /\ savedDesign = <<>> /\ rendered = <<>>
  /\ savedDesign' = <<designOf(designReq)>>
  /\ UNCHANGED <<designReq, qrSvg, rendered, storeVars, classifyVars, sideVars>>

\* POST /qr/:slug/design writes the Design column.
SaveOnDesignUpdate ==
  /\ savedDesign = <<>> /\ rendered = <<>>
  /\ decodedLogo(designReq).ok
  /\ savedDesign' = <<designUpdateOf(designReq)>>
  /\ UNCHANGED <<designReq, qrSvg, rendered, storeVars, classifyVars, sideVars>>

\* What a render route answers when its handler threw.
RenderFailed == [sizePct |-> 0, href |-> "", status |-> 500, svg |-> NoSvg]

\* GET /qr/:slug/svg: the size is Number(design.logoSizePct) || 22, the
\* reference of a design that has one is resolved, and the logo is injected
\* when the resolved reference is not empty.
RenderSvg ==
  /\ savedDesign # <<>> /\ rendered = <<>>
  /\ LET sizePct == OrNum(savedDesign[1].logoSizePct, 22)
         href == IF savedDesign[1].logoUrl # Null
                   THEN resolveLogoHref(savedDesign[1].logoUrl)
                   ELSE [threw |-> FALSE, value |-> ""]
     IN rendered' =
          << IF href.threw THEN RenderFailed
             ELSE [sizePct |-> sizePct, href |-> href.value, status |-> 200,
                   svg |-> IF href.value # ""
                             THEN injectLogoIntoSvg(qrSvg, sizePct) ELSE qrSvg] >>
  /\ UNCHANGED <<designReq, savedDesign, qrSvg, storeVars, classifyVars, sideVars>>

\* GET /qr/preview: the size is Number(q.logoSizePct || 22), or 22 when that
\* is not finite; the reference is resolved and injected likewise.
RenderPreview ==
  /\ rendered = <<>>
  /\ LET logoSizePct == OrNum(designReq.logoSizePct, 22)
         sizePct == IF logoSizePct = NaN THEN 22 ELSE logoSizePct
         logoUrl == IF designReq.logoUrl # ""
                      THEN resolveLogoHref(designReq.logoUrl)
                      ELSE [threw |-> FALSE, value |-> ""]
     IN rendered' =
          << IF logoUrl.threw THEN RenderFailed
             ELSE [sizePct |-> sizePct, href |-> logoUrl.value, status |-> 200,
                   svg |-> IF logoUrl.value # ""
                             THEN injectLogoIntoSvg(qrSvg, sizePct) ELSE qrSvg] >>
  /\ UNCHANGED <<designReq, savedDesign, qrSvg, storeVars, classifyVars, sideVars>>

RenderNext ==
  \/ SaveOnCreate
  \/ SaveOnDesignUpdate
  \/ RenderSvg
  \/ RenderPreview

RenderSpec == RenderInit /\ [][RenderNext]_vars

\* ================================================================ claims
AllCalls == {calls[i] : i \in DOMAIN calls} \cup {last}
Hits == {c \in AllCalls : c.kind = "hit"}
TargetsOf(l) == {t \in DOMAIN targets : targets[t].linkId = l}
VersionsOf(l) == {targets[t].version : t \in TargetsOf(l)}
InFlight(kind, l) ==
  \E i \in DOMAIN calls : calls[i].kind = kind /\ calls[i].qrId = l

\* The call that a step lets arrive (meaningful when started' = started + 1).
Arrival == IF (started + 1) \in DOMAIN calls' THEN calls'[started + 1] ELSE last'
Arrives(kind) == started' = started + 1 /\ Arrival.kind = kind

\* C1: however the steps of retargets interleave, the target rows of a link
\* (one that holds the single version-1 row its creation inserted) never
\* share a version, and its versions are 1..n without a gap.
C1_VersionsUniqueAndGapFree ==
  \A l \in DOMAIN links :
    Cardinality({t \in TargetsOf(l) : targets[t].version = 1}) = 1 =>
      /\ \A t1, t2 \in TargetsOf(l) :
           t1 # t2 => targets[t1].version # targets[t2].version
      /\ VersionsOf(l) = 1..Cardinality(TargetsOf(l))

\* C2: every link that a listing or a detail read returns carries a current
\* target id that references a target row of that link.
C2_ReadersSeeCurrentTarget ==
  (last.kind \in {"list", "detail"} /\ last.resp.status = 200) =>
    \A r \in last.resp.rows :
      r.cur \in DOMAIN targets /\ targets[r.cur].linkId = r.id

\* C3: after a create that answered with its failure page, the link it
\* inserted is either gone or has its version-1 target as current.
C3_FailedCreateLeavesNoHalfLink ==
  (last.kind = "create" /\ last.resp.page = "/generateQR.html?error=Failed+to+create") =>
    \/ last.qrId \notin DOMAIN links
    \/ /\ links[last.qrId].cur \in TargetsOf(last.qrId)
       /\ targets[links[last.qrId].cur].version = 1

\* C4: when a retarget of a link has just answered with success and no
\* retarget of that link is in flight, the link's pointer references the
\* link's target of maximum version.
C4_CurrentIsMaxWhenQuiescent ==
  \A l \in DOMAIN links :
    ( /\ last.kind = "retarget" /\ last.qrId = l
      /\ last.resp.page = "/editQR.html?success=Target+updated"
      /\ ~InFlight("retarget", l) ) =>
      /\ links[l].cur \in TargetsOf(l)
      /\ targets[links[l].cur].version = MaxVersion(l)

\* C5: target history is append-only: every step keeps every existing
\* target row, with the same link, version, url and UTM attributes.
C5_TargetsAppendOnly ==
  [][\A t \in DOMAIN targets : t \in DOMAIN targets' /\ targets'[t] = targets[t]]_vars

\* C5 witness: a link was retargeted and then deleted, and both of its
\* target rows are still there.
C5_Witness ==
  /\ last.kind = "delete"
  /\ \E t1, t2 \in DOMAIN targets :
       /\ targets[t1].linkId = targets[t2].linkId
       /\ targets[t1].version = 1 /\ targets[t2].version = 2
       /\ targets[t1].linkId \notin DOMAIN links

\* C6: GET /r/:slug answers 404 exactly when no unarchived link has the
\* slug, and answers with a redirect otherwise.
C6_NotFoundIffMissingOrArchived ==
  [][Arrives("hit") =>
       /\ (Arrival.resp.status = 404) <=>
            ~(\E l \in DOMAIN links :
                links[l].slug = Arrival.slug /\ ~links[l].archived)
       /\ Arrival.resp.status \in {302, 404}]_vars

\* C7: archiving is a soft delete: the delete request keeps every link,
\* target and scan row, and changes nothing but the archived flag of the
\* caller's links with that slug.
C7_ArchiveKeepsRows ==
  [][(Arrives("delete") /\ Arrival.user # Anonymous) =>
       /\ targets' = targets
       /\ scans' = scans
       /\ DOMAIN links' = DOMAIN links
       /\ \A l \in DOMAIN links :
            links'[l] =
              IF links[l].slug = Arrival.slug /\ links[l].owner = Arrival.user
                THEN [links[l] EXCEPT !.archived = TRUE] ELSE links[l]]_vars

\* C8: a hit that resolved a target has answered with its redirect while
\* the scan write is still pending, and no later step, the success or the
\* failure of that write included, changes the response.
C8_RedirectNotGatedByScanWrite ==
  [][\A i \in DOMAIN calls :
       calls[i].kind = "hit" =>
         /\ calls[i].scan = "pending"
         /\ calls[i].resp.status = 302
         /\ calls[i].resp.url = calls[i].row.url
         /\ (i \in DOMAIN calls' => calls'[i].resp = calls[i].resp)
         /\ (i \notin DOMAIN calls' => last'.resp = calls[i].resp)]_vars

\* C8 witness: a scan write has failed and the hit's answer is the redirect.
C8_Witness ==
  /\ last.kind = "hit" /\ last.scan = "failed"
  /\ last.resp.status = 302 /\ last.resp.url = last.row.url

\* The UTM merge the claim describes: every attribute present on the target
\* sets (or overwrites) the utm_ parameter of that name.
MergeUtm(url, utm) ==
  [url EXCEPT !.q = [k \in UtmKeys |-> IF utm[k] # Null THEN utm[k] ELSE url.q[k]]]

\* C9: the redirect destination is the current target's url with the
\* target's UTM attributes merged into its query.
C9_DestinationCarriesStoredUtm ==
  \A c \in Hits :
    c.resp.status = 302 => c.resp.url = MergeUtm(c.row.url, c.row.utm)

\* C10: two resolutions that found the same target row are redirected to
\* the same destination, whatever their query strings.
C10_DestinationIgnoresQuery ==
  \A c1, c2 \in Hits :
    (c1.resp.status = 302 /\ c2.resp.status = 302 /\ c1.row = c2.row) =>
      c1.resp.url = c2.resp.url

\* C10 witness: two redirected hits on the same row whose query strings
\* differ.
C10_Witness ==
  \E c1, c2 \in Hits :
    /\ c1.resp.status = 302 /\ c2.resp.status = 302
    /\ c1.row = c2.row /\ c1.query # c2.query

\* C11: a resolution that answers with a redirect has read the link's
\* pointer as it is at that moment and writes nothing itself; when the scan
\* write of a hit not classified as prefetch succeeds, the log grows by
\* exactly one row, which references the resolved link and the target read
\* at resolution; and the log grows in no other step.
C11_OneScanPerResolvedHit ==
  [][/\ (Arrives("hit") /\ Arrival.resp.status = 302) =>
          /\ Arrival.row.qrId \in DOMAIN links
          /\ links[Arrival.row.qrId].slug = Arrival.slug
          /\ links[Arrival.row.qrId].cur = Arrival.row.targetId
          /\ scans' = scans
     /\ \A i \in DOMAIN calls :
          (calls[i].kind = "hit" /\ i \notin DOMAIN calls' /\ last'.scan = "written") =>
            /\ ~calls[i].prefetch
            /\ Len(scans') = Len(scans) + 1
            /\ SubSeq(scans', 1, Len(scans)) = scans
            /\ scans'[Len(scans')].linkId = calls[i].row.qrId
            /\ scans'[Len(scans')].targetId = calls[i].row.targetId
     /\ scans' # scans =>
          \E i \in DOMAIN calls :
            calls[i].kind = "hit" /\ i \notin DOMAIN calls' /\ last'.scan = "written"]_vars

\* C11 witness: a link was retargeted once, a hit resolved its version-2
\* target, and the log holds the one row of that hit.
C11_Witness ==
  /\ last.kind = "hit" /\ last.scan = "written"
  /\ last.row.targetId \in DOMAIN targets
  /\ targets[last.row.targetId].version = 2
  /\ Len(scans) = 1
  /\ scans[1].linkId = last.row.qrId /\ scans[1].targetId = last.row.targetId

\* C12: a hit that was classified as prefetch and redirected has a row in
\* the log, flagged isPrefetch, for the link and target it resolved.
C12_PrefetchHitIsLogged ==
  (last.kind = "hit" /\ last.prefetch /\ last.resp.status = 302) =>
    \E k \in DOMAIN scans :
      /\ scans[k].isPrefetch
      /\ scans[k].linkId = last.row.qrId
      /\ scans[k].targetId = last.row.targetId

\* C14: a hit on a slug whose link has a current target is answered with
\* the redirect to that target, whether or not the user-agent parser or the
\* geo lookup throws while the hit is processed: the client gets no error.
C14_ParserFailureStillRedirects ==
  [][(Arrives("hit") /\ ResolveRows(Arrival.slug) # {}) =>
       /\ Arrival.resp.status = 302
       /\ \E row \in ResolveRows(Arrival.slug) :
            Arrival.resp.url.rest = row.url.rest]_vars

\* C15: a create or a retarget by a logged-in caller whose url is not an
\* http or https URL answers with the invalid-URL page and leaves the
\* QR_Code and QR_Target tables, pointers included, as they were.
C15_InvalidUrlChangesNothing ==
  [][(started' # started /\ Arrival.kind \in {"create", "retarget"}) =>
       \A user \in Users, slug \in Slugs, body \in CreateBodies \cup RetargetBodies :
         body.url.scheme \notin {"http", "https", "HTTP", "HTTPS"} =>
           /\ CreateBegin(user, body, slug) =>
                /\ links' = links /\ targets' = targets
                /\ last'.resp.page = "/generateQR.html?error=Invalid+URL"
           /\ RetargetBegin(user, body, slug) =>
                /\ links' = links /\ targets' = targets
                /\ last'.resp.page = "/editQR.html?error=Invalid+URL"]_vars

\* C15 witness: a retarget of the caller's own link, which has a current
\* target, was refused for its url.
C15_Witness ==
  /\ last.kind = "retarget"
  /\ last.resp.page = "/editQR.html?error=Invalid+URL"
  /\ \E l \in DOMAIN links :
       /\ links[l].slug = last.slug /\ links[l].owner = last.user
       /\ links[l].cur \in DOMAIN targets

\* The call that takes a step: the one that arrives, or the one in flight
\* that moves.
Stepper ==
  IF started' # started THEN Arrival
    ELSE calls[CHOOSE i \in DOMAIN calls : i \notin DOMAIN calls' \/ calls'[i] # calls[i]]

\* C16: no step of a retarget, a design update or a delete issued by a
\* logged-in caller changes or removes a link of another owner, its
\* pointer included, or adds, changes or removes a target row of such a
\* link.
C16_MutationsStayWithinOwner ==
  [][Stepper.kind \in {"retarget", "design", "delete"} =>
       \A l \in DOMAIN links :
         links[l].owner # Stepper.user =>
           /\ l \in DOMAIN links' /\ links'[l] = links[l]
           /\ \A t \in DOMAIN targets \cup DOMAIN targets' :
                (IF t \in DOMAIN targets THEN targets[t].linkId = l
                                          ELSE targets'[t].linkId = l) =>
                  t \in DOMAIN targets /\ t \in DOMAIN targets' /\ targets'[t] = targets[t]]_vars

\* C16 witness: a caller deleted by a slug that a link of another owner
\* has, and that link is still there.
C16_Witness ==
  /\ last.kind = "delete" /\ last.user # Anonymous
  /\ \E l \in DOMAIN links :
       links[l].slug = last.slug /\ links[l].owner # last.user

\* C17: when the caller owns no link with the slug, a detail read, a design
\* update and a retarget answer with one fixed response per request (the
\* not-found answer; or the answer to a url or a logo reference that the
\* handler refuses before its lookup, or to a rejected lookup) and change
\* nothing, whether another owner has a link with that slug or nobody has.
C17_AbsentAndForeignAnswerAlike ==
  [][( /\ started' # started
        /\ Arrival.kind \in {"detail", "design", "retarget"}
        /\ Arrival.user # Anonymous
        /\ ~\E l \in DOMAIN links :
              links[l].slug = Arrival.slug /\ links[l].owner = Arrival.user ) =>
       /\ Arrival.kind = "detail" => Arrival.resp = Status(404)
       /\ \A body \in DesignBodies :
            UpdateDesign(Arrival.user, Arrival.slug, body) =>
              /\ links' = links
              /\ last'.resp = IF body.logoUrl = "%"
                                THEN Status(500)
                                ELSE Redirect("/editQR.html?error=Not+found")
       /\ \A body \in RetargetBodies :
            RetargetBegin(Arrival.user, body, Arrival.slug) =>
              last'.resp \in
                { IF body.url.scheme \in {"http", "https", "HTTP", "HTTPS"}
                    THEN Redirect("/qr.html?error=Not+found")
                    ELSE Redirect("/editQR.html?error=Invalid+URL"),
                  Redirect("/editQR.html?error=Failed+to+update") }]_vars

\* C17 witness: a detail read was answered not-found for a slug that a link
\* of another owner has.
C17_Witness ==
  /\ last.kind = "detail" /\ last.resp = Status(404)
  /\ \E l \in DOMAIN links :
       links[l].slug = last.slug /\ links[l].owner # last.user

\* C18: a design update by a logged-in caller who has no unarchived link
\* with the slug answers not-found and leaves every table as it was.
C18_DesignUpdateNotFound ==
  [][( /\ Arrives("design") /\ Arrival.user # Anonymous
        /\ ~\E l \in DOMAIN links :
              /\ links[l].slug = Arrival.slug /\ links[l].owner = Arrival.user
              /\ ~links[l].archived ) =>
       /\ Arrival.resp = Redirect("/editQR.html?error=Not+found")
       /\ links' = links /\ targets' = targets /\ scans' = scans]_vars

\* The request carries one of the prefetch/preview headers.
HasPrefetchHeader(rq) ==
  \/ rq.xmoz = "prefetch" \/ rq.purpose = "prefetch" \/ rq.xpurpose = "preview"
  \/ rq.xfb \notin {Null, ""}

\* The characters ua contain tok, letter case aside.
ContainsIgnoringCase(ua, tok) ==
  \E k \in 0..(Len(ua) - Len(tok)) :
    \A j \in 1..Len(tok) : LowerChar(ua[k + j]) = LowerChar(tok[j])

\* C13: the verdict of the prefetch test is true exactly when the request
\* carries a prefetch/preview header or its user agent contains, letter
\* case aside, one of the crawler tokens; a user agent that contains
\* facebookexternalhit in any letter case is prefetch whatever the headers,
\* and the desktop browser user agent without such a header is not.
C13_ClassifyPrefetch ==
  classified # <<>> =>
    /\ classified[1] <=>
         \/ HasPrefetchHeader(request)
         \/ \E tok \in BotTokens : ContainsIgnoringCase(request.ua, tok)
    /\ ContainsIgnoringCase(request.ua, Chars("facebookexternalhit")) => classified[1]
    /\ (request.ua = DesktopUserAgent /\ ~HasPrefetchHeader(request)) => ~classified[1]

\* C13 witness: a request without any of the headers whose user agent
\* spells the crawler's name in mixed case was classified as prefetch.
C13_Witness ==
  /\ classified = <<TRUE>>
  /\ request.ua = Chars("FacebookExternalHit/1.1")
  /\ ~HasPrefetchHeader(request)

\* A logo was injected into the image that was sent.
LogoRendered == rendered # <<>> /\ designReq.logoUrl # ""

\* C19: whatever the logoSizePct field holds, the size written to the Design
\* column lies in 10..40, and so does the size with which a logo is
\* injected, from the stored design or in the preview.
C19_LogoSizeWithinBounds ==
  /\ savedDesign # <<>> => savedDesign[1].logoSizePct \in 10..40
  /\ LogoRendered => rendered[1].sizePct \in 10..40

\* C20: for a document that has neither width and height attributes nor a
\* viewBox, the image sent is the document as it came: no element and no
\* namespace attribute is added.
C20_NoExtentNoChange ==
  (LogoRendered /\ ~whMatch(qrSvg) /\ ~vbMatch(qrSvg)) => rendered[1].svg = qrSvg

\* The logo was injected into the image that was sent: the elements are the
\* knockout rectangle, the logo and the border rectangle.
LogoInjected == LogoRendered /\ rendered[1].svg.injected # <<>>
Knockout == rendered[1].svg.injected[1]
Logo == rendered[1].svg.injected[2]

\* The extent of an image as the description takes it: the width and height
\* attributes when present, the sizes of the viewBox otherwise.
ExtentWidth(svg) == IF whMatch(svg) THEN svg.width ELSE svg.vbWidth
ExtentHeight(svg) == IF whMatch(svg) THEN svg.height ELSE svg.vbHeight
HasExtent(svg) ==
  (whMatch(svg) \/ vbMatch(svg)) /\ ExtentWidth(svg) > 0 /\ ExtentHeight(svg) > 0

\* C21: on an image of extent W x H (width and height attributes before the
\* viewBox) the injected logo is a square of side sizePct/100 * min(W, H)
\* placed at x = (W - side)/2, y = (H - side)/2; at 22 percent on a 512-unit
\* canvas that is a side of 112.64 at 199.68.
C21_LogoSizedFromExtent ==
  (LogoInjected /\ HasExtent(qrSvg)) =>
    LET W == ExtentWidth(qrSvg)
        H == ExtentHeight(qrSvg)
        side == rendered[1].sizePct * Min(W, H) * (Scale \div 100)
    IN /\ Logo.width = side /\ Logo.height = side
       /\ 2 * Logo.x = W * Scale - side
       /\ 2 * Logo.y = H * Scale - side
       /\ (rendered[1].sizePct = 22 /\ W = 512 /\ H = 512) =>
            (Logo.width = 1126400 /\ Logo.x = 1996800 /\ Logo.y = 1996800)

\* The references whose resolution fails: a file that is not there, a path
\* that cannot be decoded, a URL that cannot be parsed.
FailingReferences == {"/uploads/missing.png", "/uploads/%", "http://["}

\* C22: the logo resolver throws for no reference and gives a reference it
\* cannot resolve back as it came, and every render request, whatever the
\* logo reference, is answered with an image (carrying that reference when
\* resolution failed).
C22_LogoNeverFailsRender ==
  /\ \A ref \in LogoFields : ~resolveLogoHref(ref).threw
  /\ \A ref \in FailingReferences : resolveLogoHref(ref).value = ref
  /\ rendered # <<>> =>
       /\ rendered[1].status = 200
       /\ designReq.logoUrl \in FailingReferences =>
            rendered[1].href = designReq.logoUrl

\* C22 witness: the image of a link whose stored logo names a missing file
\* was rendered, with the logo injected under the reference as stored.
C22_Witness ==
  /\ savedDesign # <<>> /\ LogoInjected
  /\ designReq.logoUrl = "/uploads/missing.png"
  /\ rendered[1].status = 200
  /\ rendered[1].href = "/uploads/missing.png"

\* C23: whatever creates have run, and however their steps interleaved, no
\* two links carry the same slug.
C23_SlugsUnique ==
  \A l1, l2 \in DOMAIN links : l1 # l2 => links[l1].slug # links[l2].slug

\* C24: a delete request that repeats the one before it (same caller, same
\* slug, nothing in between) leaves every table as the first one left it
\* and is answered as the first one was.
C24_ArchiveTwiceIsArchiveOnce ==
  [][( /\ Arrives("delete") /\ Arrival.user # Anonymous
        /\ Repeats("delete", Arrival.user, Arrival.slug) ) =>
       /\ links' = links /\ targets' = targets /\ scans' = scans
       /\ Arrival.resp = last.resp]_vars

\* C24 witness: a caller's delete was repeated after a link had been
\* created, and the repeat got the success answer.
C24_Witness ==
  /\ last.kind = "delete" /\ last.again /\ last.user # Anonymous
  /\ targets # <<>>
  /\ last.resp = Redirect("/qr.html?success=QR+deleted")

\* A hit that was redirected and whose link still points at the target row
\* the hit resolved: no retarget has moved the pointer since.
StillCurrent(h) ==
  /\ h.resp.status = 302
  /\ h.row.qrId \in DOMAIN links
  /\ links[h.row.qrId].cur = h.row.targetId

\* C25: two resolutions of a slug that found the same link, with no
\* retarget of it since the first, were sent to identical destinations, and
\* the target row is stored as both resolutions read it.
C25_RepeatedResolutionSameDestination ==
  \A h1, h2 \in Hits :
    ( /\ StillCurrent(h1) /\ StillCurrent(h2)
      /\ h1.slug = h2.slug /\ h1.row.qrId = h2.row.qrId ) =>
      /\ h1.resp.url = h2.resp.url
      /\ h1.row.targetId \in DOMAIN targets
      /\ targets[h1.row.targetId].url = h1.row.url
      /\ targets[h1.row.targetId].utm = h1.row.utm
      /\ h2.row = h1.row

\* C25 witness: a hit whose scan was written has returned and a second hit
\* on the same slug and link has been redirected, the pointer unmoved.
C25_Witness ==
  \E i \in DOMAIN calls :
    /\ last.kind = "hit" /\ calls[i].kind = "hit"
    /\ StillCurrent(last) /\ StillCurrent(calls[i])
    /\ last.slug = calls[i].slug /\ last.row.qrId = calls[i].row.qrId
    /\ \E k \in 1..Len(scans) : scans[k].linkId = last.row.qrId

\* C26: a create whose name is empty or blank stores nothing, so no link
\* carries an empty name and no target row belongs to such a link.
C26_BlankNameCreatesNothing ==
  /\ \A l \in DOMAIN links : links[l].name # ""
  /\ \A t \in DOMAIN targets :
       targets[t].linkId \in DOMAIN links => links[targets[t].linkId].name # ""

\* C27: the target row a redirected hit read is the one its link pointed at
\* in that moment, the destination and the UTM the hit holds are that
\* row's, and the scan row the hit writes later, whatever retargets ran
\* meanwhile, references that same row and carries that row's UTM.
C27_OneTargetRowPerResolution ==
  [][/\ (Arrives("hit") /\ Arrival.resp.status = 302) =>
          LET t == Arrival.row.targetId
          IN /\ Arrival.row.qrId \in DOMAIN links
             /\ links[Arrival.row.qrId].cur = t
             /\ t \in DOMAIN targets
             /\ Arrival.resp.url = targets[t].url
             /\ Arrival.row.utm = targets[t].utm
     /\ \A i \in DOMAIN calls :
          (calls[i].kind = "hit" /\ i \notin DOMAIN calls' /\ scans' # scans) =>
            LET scan == scans'[Len(scans')]
                t == scan.targetId
            IN /\ t = calls[i].row.targetId
               /\ t \in DOMAIN targets'
               /\ calls[i].resp.url = targets'[t].url
               /\ scan.utm = targets'[t].utm
               /\ scan.linkId = targets'[t].linkId]_vars

\* C27 witness: the scan row of a hit was written after a retarget had
\* moved the link's pointer to a target with other UTM values; the row
\* references the target the hit resolved.
C27_Witness ==
  /\ last.kind = "hit" /\ last.scan = "written"
  /\ last.row.qrId \in DOMAIN links
  /\ links[last.row.qrId].cur \in DOMAIN targets
  /\ links[last.row.qrId].cur # last.row.targetId
  /\ targets[links[last.row.qrId].cur].utm # last.row.utm
  /\ scans[Len(scans)].targetId = last.row.targetId

\* C28: no step of a design update, a resolution (the scan write it starts
\* included), an image request, a listing or a detail read adds, changes or
\* removes a target row, adds or removes a link, or changes the pointer of
\* a link.
C28_OnlyCreateAndRetargetMovePointer ==
  [][Stepper.kind \in {"design", "hit", "svg", "list", "detail"} =>
       /\ targets' = targets
       /\ DOMAIN links' = DOMAIN links
       /\ \A l \in DOMAIN links : links'[l].cur = links[l].cur]_vars

\* C28 witness: a design update has rewritten the design of a link that
\* points at a target row.
C28_Witness ==
  /\ last.kind = "design"
  /\ last.resp = Redirect("/editQR.html?success=Design+updated")
  /\ \E l \in DOMAIN links :
       /\ links[l].slug = last.slug /\ links[l].owner = last.user
       /\ links[l].design # designOf(NamedBody)
       /\ \E body \in DesignBodies : links[l].design = designUpdateOf(body)
       /\ links[l].cur \in DOMAIN targets

\* The design fields, and whether a form leaves one out.
DesignFieldNames == {"fg", "bg", "ec", "format", "logoUrl", "logoSizePct"}
Omits(body, f) == body[f] = NoDesignFields[f]

\* C29: a design update that is carried out keeps every link, with its name
\* and slug, and keeps the stored value of every design field that its form
\* leaves out.
C29_DesignUpdateIsPartial ==
  [][\A body \in DesignBodies :
       ( /\ started' # started /\ Arrival.kind = "design"
         /\ Arrival.resp.status = 302
         /\ UpdateDesign(Arrival.user, Arrival.slug, body) ) =>
         \A l \in DOMAIN links :
           /\ l \in DOMAIN links'
           /\ links'[l].name = links[l].name
           /\ links'[l].slug = links[l].slug
           /\ \A f \in DesignFieldNames :
                Omits(body, f) => links'[l].design[f] = links[l].design[f]]_vars

\* The extent of an image in the units its elements are placed in: the
\* sizes of the viewBox when it has one, its width and height otherwise.
CoordinateWidth(svg) == IF vbMatch(svg) THEN svg.vbWidth ELSE svg.width
CoordinateHeight(svg) == IF vbMatch(svg) THEN svg.vbHeight ELSE svg.height
HasCoordinates(svg) ==
  (whMatch(svg) \/ vbMatch(svg))
    /\ CoordinateWidth(svg) > 0 /\ CoordinateHeight(svg) > 0

Latitudes == {126, 127, 130, 131, 132, 137, 138, 139, 142, 145, 146}
Longitudes == {10367, 10368, 10374, 10378, 10382, 10385, 10387, 10388,
               10396, 10399, 10400}

\* What geoip.lookup(ip) || {} can give: SG, another country or nothing,
\* with or without region, city and coordinates.
GeoLookups ==
  [country : {"", "SG", "MY"}, region : {"", "01"}, city : {"", "Singapore"},
   ll : {<<>>} \cup (Latitudes \X Longitudes)]

\* getSingaporeRegion with the East box tested before the North-East box.
getSingaporeRegionEastFirst(lat, lon) ==
  IF lat >= 127 /\ lat <= 131 /\ lon >= 10382 /\ lon <= 10388 THEN "Central"
  ELSE IF lat >= 138 /\ lat <= 145 /\ lon >= 10374 /\ lon <= 10385
    THEN "North"
  ELSE IF lat >= 131 /\ lat <= 137 /\ lon >= 10388 /\ lon <= 10399
    THEN "East"
  ELSE IF lat >= 132 /\ lat <= 142 /\ lon >= 10387 /\ lon <= 10396
    THEN "North-East"
  ELSE IF lat >= 130 /\ lat <= 139 /\ lon >= 10368 /\ lon <= 10378
    THEN "West"
  ELSE "Singapore"

\* getSingaporeRegion(lat, lon): the chain of tests, in the code's order.
getSingaporeRegion(lat, lon) ==
  IF lat >= 127 /\ lat <= 131 /\ lon >= 10382 /\ lon <= 10388 THEN "Central"
  ELSE IF lat >= 138 /\ lat <= 145 /\ lon >= 10374 /\ lon <= 10385
    THEN "North"
  ELSE IF lat >= 132 /\ lat <= 142 /\ lon >= 10387 /\ lon <= 10396
    THEN "North-East"
  ELSE IF lat >= 131 /\ lat <= 137 /\ lon >= 10388 /\ lon <= 10399
    THEN "East"
  ELSE IF lat >= 130 /\ lat <= 139 /\ lon >= 10368 /\ lon <= 10378
    THEN "West"
  ELSE "Singapore"

\* The value bound to Region: geo.region; without one, the Singapore
\* sub-region when the country is SG and geo.ll is there; else
\* geo.city || geo.country.
regionOf(geo) ==
  IF geo.region # "" THEN geo.region
  ELSE IF geo.country = "SG" /\ geo.ll # <<>>
    THEN getSingaporeRegion(geo.ll[1], geo.ll[2])
  ELSE Or(geo.city, geo.country)

\* A scan arrives from an address with any lookup result.
RegionInit ==
  /\ StoreEmpty
  /\ ClassifierIdle
  /\ RendererIdle
  /\ AuthIdle
  /\ PoolIdle
  /\ \E geo \in GeoLookups : geoScan = [geo |-> geo, region |-> <<>>]

\* The handler computes the Region it binds to the insert.
RecordRegion ==
  /\ geoScan.region = <<>>
  /\ geoScan' = [geoScan EXCEPT !.region = <<regionOf(geoScan.geo)>>]
  /\ UNCHANGED <<storeVars, classifyVars, renderVars, auth, db>>

RegionNext == RecordRegion

RegionSpec == RegionInit /\ [][RegionNext]_vars

\* The table of sub-regions, in the order the code tests them.
BoundingBoxes ==
  << [name |-> "Central", latLo |-> 127, latHi |-> 131,
      lonLo |-> 10382, lonHi |-> 10388],
     [name |-> "North", latLo |-> 138, latHi |-> 145,
      lonLo |-> 10374, lonHi |-> 10385],
     [name |-> "North-East", latLo |-> 132, latHi |-> 142,
      lonLo |-> 10387, lonHi |-> 10396],
     [name |-> "East", latLo |-> 131, latHi |-> 137,
      lonLo |-> 10388, lonHi |-> 10399],
     [name |-> "West", latLo |-> 130, latHi |-> 139,
      lonLo |-> 10368, lonHi |-> 10378] >>

\* The boxes of the table that contain a pair of coordinates.
BoxesAround(ll) ==
  {i \in DOMAIN BoundingBoxes :
     /\ ll[1] >= BoundingBoxes[i].latLo /\ ll[1] <= BoundingBoxes[i].latHi
     /\ ll[2] >= BoundingBoxes[i].lonLo /\ ll[2] <= BoundingBoxes[i].lonHi}

FirstBoxAround(ll) ==
  BoundingBoxes[CHOOSE i \in BoxesAround(ll) :
                  \A j \in BoxesAround(ll) : i <= j].name

RegionRecorded == geoScan.region # <<>>
InSingaporeWithCoordinates ==
  geoScan.geo.country = "SG" /\ geoScan.geo.ll # <<>>

\* C31 as stated: the geo lookup's region when it has one; otherwise, with
\* neither region nor city, country SG and coordinates, the sub-region of
\* the first box of the table around the coordinates; and only otherwise
\* the city or the country.
C31_ClassifierOnlyWithoutCity ==
  RegionRecorded =>
    LET geo == geoScan.geo
        region == geoScan.region[1]
        refined == geo.region = "" /\ geo.city = ""
                          /\ InSingaporeWithCoordinates
    IN /\ geo.region # "" => region = geo.region
       /\ refined /\ BoxesAround(geo.ll) # {}
            => region = FirstBoxAround(geo.ll)
       /\ geo.region = "" /\ ~refined
            => region = Or(geo.city, geo.country)

\* C31 as amended: the geo lookup's region when it has one; otherwise,
\* when the country is SG and coordinates are available, with or without a
\* city, the sub-region of the first box of the table around the
\* coordinates, or "Singapore" when no box is around them; and only
\* otherwise the city or the country.
C31_RegionRefinement ==
  RegionRecorded =>
    LET geo == geoScan.geo
        region == geoScan.region[1]
    IN /\ geo.region # "" => region = geo.region
       /\ geo.region = "" /\ InSingaporeWithCoordinates
            => region = IF BoxesAround(geo.ll) = {} THEN "Singapore"
                        ELSE FirstBoxAround(geo.ll)
       /\ geo.region = "" /\ ~InSingaporeWithCoordinates
            => region = Or(geo.city, geo.country)

\* A lookup with a city and coordinates in both the North-East and the
\* East box was recorded as North-East.
C31_Witness ==
  /\ RegionRecorded
  /\ geoScan.geo.region = "" /\ geoScan.geo.city = "Singapore"
  /\ InSingaporeWithCoordinates
  /\ BoxesAround(geoScan.geo.ll) = {3, 4}
  /\ geoScan.region[1] = "North-East"

\* ---------------------------------------------------------------------
\* Sessions and POST /auth/refresh (routes/auth.ts).
\* A raw refresh token is a number, the n-th value randomToken(32) gave;
\* NoToken is a request without the rt cookie.  A session row is its Id and
\* its Refresh_Token_Hash; rows are read before they expire.

NoToken == 0
NoAnswer == [status |-> 0, error |-> "", rt |-> NoToken]

\* sha256Hex(raw): one digest per token, never the token itself.
sha256Hex(raw) == <<"sha256", raw>>

\* randomToken(32): a value no earlier call gave.
randomToken(a) == a.minted + 1

\* INSERT INTO dbo.[Session] (User_Id, Refresh_Token_Hash, ExpiresAt).
InsertSession(a, raw) ==
  [a EXCEPT !.sessions = @ \cup {[id |-> raw, hash |-> sha256Hex(raw)]},
            !.minted = raw]

\* SELECT TOP 1 ... WHERE s.Refresh_Token_Hash = @hash.
SessionsByHash(a, hash) == {row \in a.sessions : row.hash = hash}

\* DELETE FROM dbo.[Session] WHERE Id = @id.
DeleteSession(a, id) ==
  [a EXCEPT !.sessions = {row \in @ : row.id # id}]

\* The refresh tokens handed out so far, each in some client's cookie jar.
TokensIssued == 1..auth.minted

\* POST /auth/login with the right password: a session row for a new token.
Login ==
  /\ auth.logins < MaxLogins
  /\ auth' = [InsertSession(auth, randomToken(auth)) EXCEPT !.logins = @ + 1]
  /\ UNCHANGED <<storeVars, classifyVars, renderVars, geoScan, db>>

RefreshCall(raw) == [pc |-> "select", raw |-> raw, sess |-> NoId,
                     resp |-> NoAnswer]

\* POST /auth/refresh up to the answer of the SELECT: 401 without a cookie
\* or without a row, else the row is kept in sess.
RefreshSelect(raw) ==
  /\ Len(auth.refreshes) < MaxRefreshes
  /\ LET rows == SessionsByHash(auth, sha256Hex(raw))
         call ==
           IF raw = NoToken
             THEN [RefreshCall(raw) EXCEPT
                     !.pc = "done",
                     !.resp = [NoAnswer EXCEPT !.status = 401,
                                 !.error = "No refresh token"]]
           ELSE IF rows = {}
             THEN [RefreshCall(raw) EXCEPT
                     !.pc = "done",
                     !.resp = [NoAnswer EXCEPT !.status = 401,
                                 !.error = "Invalid refresh token"]]
           ELSE [RefreshCall(raw) EXCEPT
                   !.pc = "delete",
                   !.sess = (CHOOSE row \in rows : TRUE).id]
     IN auth' = [auth EXCEPT !.refreshes = Append(@, call)]
  /\ UNCHANGED <<storeVars, classifyVars, renderVars, geoScan, db>>

\* The DELETE of the row read; its row count is not looked at.
RefreshDelete(c) ==
  /\ auth.refreshes[c].pc = "delete"
  /\ auth' = [DeleteSession(auth, auth.refreshes[c].sess) EXCEPT
                !.refreshes[c].pc = "insert"]
  /\ UNCHANGED <<storeVars, classifyVars, renderVars, geoScan, db>>

\* The INSERT of the new session and the answer with the new rt cookie.
RefreshInsert(c) ==
  /\ auth.refreshes[c].pc = "insert"
  /\ LET newRaw == randomToken(auth)
     IN auth' = [InsertSession(auth, newRaw) EXCEPT
                   !.refreshes[c].pc = "done",
                   !.refreshes[c].resp =
                      [NoAnswer EXCEPT !.status = 200, !.rt = newRaw]]
  /\ UNCHANGED <<storeVars, classifyVars, renderVars, geoScan, db>>

\* A query of the request throws: the framework answers 500.
RefreshFailed(c) ==
  /\ auth.refreshes[c].pc \in {"delete", "insert"}
  /\ auth' = [auth EXCEPT !.refreshes[c].pc = "done",
                          !.refreshes[c].resp =
                             [NoAnswer EXCEPT !.status = 500]]
  /\ UNCHANGED <<storeVars, classifyVars, renderVars, geoScan, db>>

\* POST /auth/logout: DELETE ... WHERE Refresh_Token_Hash = @hash.
Logout(raw) ==
  /\ auth' = [auth EXCEPT
                !.sessions = @ \ SessionsByHash(auth, sha256Hex(raw))]
  /\ UNCHANGED <<storeVars, classifyVars, renderVars, geoScan, db>>

AuthInit ==
  /\ StoreEmpty
  /\ ClassifierIdle
  /\ RendererIdle
  /\ SidesIdle

AuthNext ==
  \/ Login
  \/ \E raw \in {NoToken} \cup TokensIssued : RefreshSelect(raw)
  \/ \E c \in DOMAIN auth.refreshes : RefreshDelete(c)
  \/ \E c \in DOMAIN auth.refreshes : RefreshInsert(c)
  \/ \E c \in DOMAIN auth.refreshes : RefreshFailed(c)
  \/ \E raw \in TokensIssued : Logout(raw)

AuthSpec == AuthInit /\ [][AuthNext]_vars

\* The refresh requests answered with a new session.
Redeemed ==
  {c \in DOMAIN auth.refreshes : auth.refreshes[c].resp.status = 200}

\* No two requests that presented the same token both succeeded.
AtMostOneRedeems ==
  \A c1, c2 \in Redeemed :
     auth.refreshes[c1].raw = auth.refreshes[c2].raw => c1 = c2

\* A request that arrives with a token some request already redeemed is
\* answered 401 at once.
RedeemedIsRejected ==
  Len(auth'.refreshes) > Len(auth.refreshes) =>
    LET call == auth'.refreshes[Len(auth'.refreshes)]
    IN (\E c \in Redeemed : auth.refreshes[c].raw = call.raw)
         => call.resp.status = 401

\* C32: a refresh token is redeemable at most once: of the refresh requests
\* that present the same token, in any interleaving, at most one succeeds
\* and issues a new session, and after a successful refresh every later
\* refresh with the old token is rejected.
C32_RefreshTokenRedeemedOnce ==
  []AtMostOneRedeems /\ [][RedeemedIsRejected]_vars

\* ---------------------------------------------------------------------
\* getPool (db.ts).  db.pool is the module's variable (NoPool is null),
\* db.pools the ConnectionPool objects constructed so far, a pool being its
\* index, and db.getters the calls of getPool.

GetPoolCall == [pc |-> "done", first |-> FALSE, mine |-> NoPool,
                result |-> NoPool, threw |-> FALSE]

\* if (pool && pool.connected)
PoolReady(d) == d.pool # NoPool /\ d.pools[d.pool].connected

\* A call of getPool up to its return or its await: the cached pool when it
\* is connected, else new sql.ConnectionPool({...}).connect() is started.
GetPoolBegin ==
  /\ Len(db.getters) < MaxGetPools
  /\ IF PoolReady(db)
       THEN db' = [db EXCEPT
                     !.getters = Append(@, [GetPoolCall EXCEPT
                                              !.result = db.pool])]
       ELSE db' = [db EXCEPT
                     !.pools = Append(@, [connected |-> FALSE]),
                     !.getters = Append(@, [GetPoolCall EXCEPT
                                              !.pc = "connect",
                                              !.first = (db.pool = NoPool),
                                              !.mine = Len(db.pools) + 1])]
  /\ UNCHANGED <<storeVars, classifyVars, renderVars, geoScan, auth>>

\* connect() resolves: pool = <the pool connected>; return pool.
ConnectDone(c) ==
  /\ db.getters[c].pc = "connect"
  /\ LET mine == db.getters[c].mine
     IN db' = [db EXCEPT !.pools[mine].connected = TRUE,
                         !.pool = mine,
                         !.getters[c].pc = "done",
                         !.getters[c].result = mine]
  /\ UNCHANGED <<storeVars, classifyVars, renderVars, geoScan, auth>>

\* connect() rejects: getPool throws and pool is not assigned.
ConnectFailed(c) ==
  /\ db.getters[c].pc = "connect"
  /\ db' = [db EXCEPT !.getters[c].pc = "done",
                      !.getters[c].threw = TRUE]
  /\ UNCHANGED <<storeVars, classifyVars, renderVars, geoScan, auth>>

\* A connected pool is closed or loses its server: connected turns false.
PoolClosed(p) ==
  /\ db.pools[p].connected
  /\ db' = [db EXCEPT !.pools[p].connected = FALSE]
  /\ UNCHANGED <<storeVars, classifyVars, renderVars, geoScan, auth>>

PoolInit ==
  /\ StoreEmpty
  /\ ClassifierIdle
  /\ RendererIdle
  /\ SidesIdle

PoolNext ==
  \/ GetPoolBegin
  \/ \E c \in DOMAIN db.getters : ConnectDone(c)
  \/ \E c \in DOMAIN db.getters : ConnectFailed(c)
  \/ \E p \in DOMAIN db.pools : PoolClosed(p)

PoolSpec == PoolInit /\ [][PoolNext]_vars

\* The pools whose connect() is pending.
Connecting ==
  {db.getters[c].mine :
     c \in {g \in DOMAIN db.getters : db.getters[g].pc = "connect"}}

Connected == {p \in DOMAIN db.pools : db.pools[p].connected}

\* A pool is constructed only when none is connected or being connected.
OpensOnlyWithoutPool ==
  Len(db'.pools) > Len(db.pools) => Connected \cup Connecting = {}

\* The calls that found the variable null and got a pool.
FirstCallers ==
  {c \in DOMAIN db.getters :
     db.getters[c].first /\ db.getters[c].result # NoPool}

\* The first callers, however they interleaved, hold the same pool.
FirstCallersShare ==
  \A c1, c2 \in FirstCallers :
     db.getters[c1].result = db.getters[c2].result

\* Every connected pool is the one the module's variable refers to.
NoPoolLeftUnreferenced == \A p \in Connected : db.pool = p

\* C33: getPool creates at most one connection pool while a connected pool
\* exists or is being connected: in any interleaving of concurrent first
\* calls every caller receives the same pool, and no second pool is opened
\* and left unreferenced.
C33_OnePoolForAllCallers ==
  /\ [][OpensOnlyWithoutPool]_vars
  /\ []FirstCallersShare
  /\ []NoPoolLeftUnreferenced

====
